---- MODULE Spec2Model ----
(***************************************************************************)
(* A model of yota's field descriptors (nodes.py: Node and its variants)   *)
(* and of the lazily resolved validator bindings (validators.py:           *)
(* ActionWrapper, Check, and the validators Matching and Required).        *)
(*                                                                         *)
(* Python values are represented as follows.                               *)
(*  - A reference held by a binding is a record [node, name]: a raw        *)
(*    attribute-name string s is [node |-> 0, name |-> s], a Node object   *)
(*    with identity n is [node |-> n, name |-> ""].                        *)
(*  - The keyword dictionary of a binding is the sequence of its           *)
(*    [key, ref] items in iteration order.                                 *)
(*  - An exception leaving an operation is recorded in ret.exc.            *)
(***************************************************************************)
EXTENDS Integers, Sequences, FiniteSets, TLC

VARIABLES
    args,       \* ActionWrapper.args: sequence of references
    kwargs,     \* ActionWrapper.kwargs: sequence of [key, ref] items
    resolved,   \* ActionWrapper.resolved
    callable,   \* ActionWrapper.callable: which validator is wrapped
    data,       \* Node.data of every registered Node object
    errs,       \* error lists: errs[0] is the class attribute Node.errors,
                \* errs[n] the instance attribute of Node n when it has one
    hasOwn,     \* the Node objects whose instance dictionary holds "errors"
    ret,        \* outcome of the last operation
    cls,        \* class of the field under test: Node, ListNode or LeaderNode
    attrName,   \* its _attr_name
    inst,       \* its instance dictionary (__dict__), public keys only
    supplied,   \* the keyword arguments its constructor received
    requires,   \* its _requires list
    ignores,    \* its _ignores list
    idParent,   \* parent names set_identifiers was called with, oldest first
    created,    \* the Node objects constructed so far
    createCounter   \* Node._create_counter

bvars == <<args, kwargs, resolved, callable, data, errs, hasOwn>>
nvars == <<cls, attrName, inst, supplied, requires, ignores, idParent>>
evars == <<created, createCounter>>
vars == <<bvars, nvars, evars, ret>>

-----------------------------------------------------------------------------
(* Bounds *)

MaxArgs == 2
MaxKw == 1
MaxErrors == 4
MaxIdentifyCalls == 2
MaxCreated == 3

-----------------------------------------------------------------------------
(* The forms (field registries) a binding can be resolved against *)

Names == {"pw1", "pw2", "confirm"}
\* Submitted values: two strings and a scalar that has no length.
NonSized == "<int>"
Data == {"", "x", NonSized}
NodeIds == {1, 2, 3, 4, 5}
Forms == {1, 2}

\* Form 1 declares pw1 and pw2; form 2 declares pw1, pw2 and confirm.
Registry ==
    <<[pw1 |-> 1, pw2 |-> 2],
      [pw1 |-> 3, pw2 |-> 4, confirm |-> 5]>>

AttrName == <<"pw1", "pw2", "pw1", "pw2", "confirm">>

\* Names under which a field counts as visited; node 5 is a composite field.
VisitNames == {"pw1", "pw2", "confirm", "confirm_b"}

get_list_names(n) ==
    IF n = 5 THEN <<"confirm", "confirm_b">> ELSE <<AttrName[n]>>

NameRef(s) == [node |-> 0, name |-> s]
NodeRef(n) == [node |-> n, name |-> ""]
IsName(r) == r.node = 0

\* Form.get_by_attr: whether the lookup of r succeeds.  A Node object passed
\* as the name matches no attribute name.
Declares(form, r) == IsName(r) /\ r.name \in DOMAIN Registry[form]

get_by_attr(form, r) == NodeRef(Registry[form][r.name])

-----------------------------------------------------------------------------
(* Outcome records *)

NoRet ==
    [op |-> "init", exc |-> "none", val |-> FALSE, calls |-> 0, form |-> 0,
     missing |-> NameRef(""), visited |-> {}, called |-> FALSE,
     pargs |-> <<>>, pkwargs |-> <<>>]

-----------------------------------------------------------------------------
(* ActionWrapper.resolve_attr_names *)

RECURSIVE ResolveArgsSwallow(_, _, _)
\* Faulty variant: a lookup that raises is caught and the reference skipped.
ResolveArgsSwallow(form, as, i) ==
    IF i > Len(as)
    THEN [refs |-> as, raised |-> FALSE, calls |-> 0, missing |-> NameRef("")]
    ELSE LET nxt == IF Declares(form, as[i])
                    THEN [as EXCEPT ![i] = get_by_attr(form, as[i])] ELSE as
             r == ResolveArgsSwallow(form, nxt, i + 1)
         IN  [r EXCEPT !.calls = @ + 1]

RECURSIVE ResolveArgs(_, _, _)
\* for key, arg in enumerate(self.args): self.args[key] = form.get_by_attr(arg)
ResolveArgs(form, as, i) ==
    IF i > Len(as)
    THEN [refs |-> as, raised |-> FALSE, calls |-> 0, missing |-> NameRef("")]
    ELSE IF ~Declares(form, as[i])
    THEN [refs |-> as, raised |-> TRUE, calls |-> 1, missing |-> as[i]]
    ELSE LET r == ResolveArgs(form, [as EXCEPT ![i] = get_by_attr(form, as[i])], i + 1)
         IN  [r EXCEPT !.calls = @ + 1]

RECURSIVE ResolveKwargs(_, _, _)
\* for key, val in self.kwargs.items(): self.kwargs[key] = form.get_by_attr(val)
ResolveKwargs(form, kws, i) ==
    IF i > Len(kws)
    THEN [refs |-> kws, raised |-> FALSE, calls |-> 0, missing |-> NameRef("")]
    ELSE IF ~Declares(form, kws[i].ref)
    THEN [refs |-> kws, raised |-> TRUE, calls |-> 1, missing |-> kws[i].ref]
    ELSE LET r == ResolveKwargs(form,
                     [kws EXCEPT ![i].ref = get_by_attr(form, kws[i].ref)], i + 1)
         IN  [r EXCEPT !.calls = @ + 1]

\* Faulty variant: the early return is missing.
ResolveNeverReturnsEarly == FALSE

\* if self.resolved: return
ResolveReturnsEarly == resolved

\* Faulty variant: self.resolved = True is reached although a lookup raised.
ResolveBodyAlwaysMarks(form) ==
    LET a == ResolveArgs(form, args, 1)
        k == ResolveKwargs(form, kwargs, 1)
    IN  [args |-> a.refs, kwargs |-> IF a.raised THEN kwargs ELSE k.refs,
         resolved |-> TRUE,
         exc |-> IF a.raised \/ k.raised THEN "LookupError" ELSE "none",
         calls |-> a.calls + (IF a.raised THEN 0 ELSE k.calls),
         missing |-> IF a.raised THEN a.missing ELSE k.missing]

\* The statements after the early return, up to the first lookup that raises.
ResolveBody(form) ==
    LET a == ResolveArgs(form, args, 1)
        k == ResolveKwargs(form, kwargs, 1)
    IN  IF a.raised
        THEN [args |-> a.refs, kwargs |-> kwargs, resolved |-> resolved,
              exc |-> "LookupError", calls |-> a.calls, missing |-> a.missing]
        ELSE IF k.raised
        THEN [args |-> a.refs, kwargs |-> k.refs, resolved |-> resolved,
              exc |-> "LookupError", calls |-> a.calls + k.calls,
              missing |-> k.missing]
        ELSE [args |-> a.refs, kwargs |-> k.refs, resolved |-> TRUE,
              exc |-> "none", calls |-> a.calls + k.calls,
              missing |-> NameRef("")]

resolve_attr_names(form) ==
    /\ IF ResolveReturnsEarly
       THEN /\ UNCHANGED <<args, kwargs, resolved>>
            /\ ret' = [NoRet EXCEPT !.op = "resolve", !.form = form]
       ELSE LET b == ResolveBody(form)
            IN  /\ args' = b.args
                /\ kwargs' = b.kwargs
                /\ resolved' = b.resolved
                /\ ret' = [NoRet EXCEPT !.op = "resolve", !.form = form,
                                        !.exc = b.exc,
                                        !.calls = b.calls, !.missing = b.missing]
    /\ UNCHANGED <<callable, data, errs, hasOwn>>
    /\ UNCHANGED nvars
    /\ UNCHANGED evars

-----------------------------------------------------------------------------
(* Node.errors and Node.add_error *)

\* self.errors: the instance attribute when the Node has one, otherwise the
\* class attribute Node.errors (nodes.py line 44).
ErrorSlot(own, n) == IF n \in own THEN n ELSE 0

Errors(n) == errs[ErrorSlot(hasOwn, n)]

\* self.errors.append(error)
add_error(es, n, error) == [es EXCEPT ![ErrorSlot(hasOwn, n)] = Append(@, error)]

-----------------------------------------------------------------------------
(* The wrapped validators *)

Callables == {"Matching", "Required"}

\* Parameters of __call__ after self, and how many of them have no default.
Params(c) == IF c = "Matching" THEN <<"target1", "target2">> ELSE <<"target">>
NumRequired(c) == IF c = "Matching" THEN 2 ELSE 0

None == [node |-> -1, name |-> ""]
IsNode(r) == r.node > 0

Range(f) == {f[i] : i \in DOMAIN f}

\* Python raises TypeError when the arguments do not fit the signature.
SignatureMismatch(c, as, kws) ==
    \/ Len(as) > Len(Params(c))
    \/ \E i \in DOMAIN kws : kws[i].key \notin Range(Params(c))
    \/ \E i \in DOMAIN kws : \E j \in 1..Len(as) :
           j <= Len(Params(c)) /\ Params(c)[j] = kws[i].key
    \/ \E j \in 1..NumRequired(c) :
           j > Len(as) /\ \A i \in DOMAIN kws : kws[i].key # Params(c)[j]

\* The value bound to the j-th parameter.
BoundArg(c, as, kws, j) ==
    IF j <= Len(as) THEN as[j]
    ELSE IF \E i \in DOMAIN kws : kws[i].key = Params(c)[j]
    THEN kws[CHOOSE i \in DOMAIN kws : kws[i].key = Params(c)[j]].ref
    ELSE None

MatchingMessage == [message |-> "Fields must match"]
RequiredMessage == [message |-> "A value is required"]

\* Matching.__call__(target1, target2)
Matching(t1, t2) ==
    IF ~IsNode(t1) \/ ~IsNode(t2)
    THEN [errs |-> errs, exc |-> "AttributeError"]
    ELSE IF data[t1.node] # data[t2.node]
    THEN [errs |-> add_error(add_error(errs, t1.node, MatchingMessage),
                             t2.node, MatchingMessage),
          exc |-> "none"]
    ELSE [errs |-> errs, exc |-> "none"]

\* Required.__call__(target=None)
Required(t) ==
    IF ~IsNode(t)
    THEN [errs |-> errs, exc |-> "AttributeError"]
    ELSE IF data[t.node] = NonSized
    THEN [errs |-> errs, exc |-> "TypeError"]
    ELSE IF data[t.node] = ""
    THEN [errs |-> add_error(errs, t.node, RequiredMessage), exc |-> "none"]
    ELSE [errs |-> errs, exc |-> "none"]

\* self.callable(*self.args, **self.kwargs)
CallCallable(c, as, kws) ==
    IF SignatureMismatch(c, as, kws)
    THEN [errs |-> errs, exc |-> "TypeError"]
    ELSE IF c = "Matching"
    THEN Matching(BoundArg(c, as, kws, 1), BoundArg(c, as, kws, 2))
    ELSE Required(BoundArg(c, as, kws, 1))

-----------------------------------------------------------------------------
(* ActionWrapper.__call__ *)

\* Faulty variant: the resolved check of __call__ is missing.
CallNotResolvedUnchecked == FALSE

\* __call__: if not self.resolved: raise ValueError(...)
CallNotResolved == ~resolved

\* The arguments handed to the wrapped callable.
PassedArgs == args
PassedKwargs == kwargs

Call ==
    /\ IF CallNotResolved
       THEN /\ ret' = [NoRet EXCEPT !.op = "call", !.exc = "ValueError"]
            /\ UNCHANGED errs
       ELSE LET r == CallCallable(callable, PassedArgs, PassedKwargs)
            IN  /\ errs' = r.errs
                /\ \A s \in DOMAIN errs : Len(r.errs[s]) <= MaxErrors
                /\ ret' = [NoRet EXCEPT
                             !.op = "call",
                             !.called = TRUE,
                             !.pargs = PassedArgs,
                             !.pkwargs = PassedKwargs,
                             !.exc = IF r.exc = "TypeError"
                                     THEN "NotCallableException" ELSE r.exc]
    /\ UNCHANGED <<args, kwargs, resolved, callable, data, hasOwn>>
    /\ UNCHANGED nvars
    /\ UNCHANGED evars

-----------------------------------------------------------------------------
(* Check.node_visited *)

\* node_visited: if not self.resolved: raise ValueError(...)
VisitedNotResolved == ~resolved

\* for name in node.get_list_names(): if name in visited: break
\* else: return False
NodeSeen(r, visited) ==
    \E i \in DOMAIN get_list_names(r.node) : get_list_names(r.node)[i] \in visited

\* The loops end "ready" (fell through), "waiting" (return False) or, on a
\* reference that is no Node and so has no get_list_names, "AttributeError".

\* Faulty variant: the loop returns after the first positional reference.
ArgsVisitedFirstOnly(as, visited, i) ==
    IF i > Len(as) THEN "ready"
    ELSE IF ~IsNode(as[i]) THEN "AttributeError"
    ELSE IF ~NodeSeen(as[i], visited) THEN "waiting"
    ELSE "ready"

RECURSIVE ArgsVisited(_, _, _)
\* for node in self.args
ArgsVisited(as, visited, i) ==
    IF i > Len(as) THEN "ready"
    ELSE IF ~IsNode(as[i]) THEN "AttributeError"
    ELSE IF ~NodeSeen(as[i], visited) THEN "waiting"
    ELSE ArgsVisited(as, visited, i + 1)

\* Faulty variant: the keyword references are not looked at.
KwargsVisitedSkipped(kws, visited, i) == "ready"

RECURSIVE KwargsVisited(_, _, _)
\* for node in self.kwargs.values()
KwargsVisited(kws, visited, i) ==
    IF i > Len(kws) THEN "ready"
    ELSE IF ~IsNode(kws[i].ref) THEN "AttributeError"
    ELSE IF ~NodeSeen(kws[i].ref, visited) THEN "waiting"
    ELSE KwargsVisited(kws, visited, i + 1)

NodeVisitedResult(visited) ==
    IF ArgsVisited(args, visited, 1) # "ready"
    THEN ArgsVisited(args, visited, 1)
    ELSE KwargsVisited(kwargs, visited, 1)

node_visited(visited) ==
    /\ IF VisitedNotResolved
       THEN ret' = [NoRet EXCEPT !.op = "visited", !.exc = "ValueError",
                                 !.visited = visited]
       ELSE IF NodeVisitedResult(visited) = "AttributeError"
       THEN ret' = [NoRet EXCEPT !.op = "visited", !.exc = "AttributeError",
                                 !.visited = visited]
       ELSE ret' = [NoRet EXCEPT !.op = "visited", !.visited = visited,
                                 !.val = (NodeVisitedResult(visited) = "ready")]
    /\ UNCHANGED <<args, kwargs, resolved, callable, data, errs, hasOwn>>
    /\ UNCHANGED nvars
    /\ UNCHANGED evars

-----------------------------------------------------------------------------
(* The binding's life: construction, then any order of the operations *)

BoundedSeq(S, n) == UNION {[1..k -> S] : k \in 0..n}

KwKeys == {"target", "target2"}

\* Keyword dictionaries: items with pairwise distinct keys.
KwDicts ==
    {k \in BoundedSeq([key : KwKeys, ref : {NameRef(s) : s \in Names}], MaxKw) :
        \A i, j \in DOMAIN k : i # j => k[i].key # k[j].key}

\* What each form's fields hold after the submission was bound to them:
\* any value for pw1, beside "x" for pw2 and an empty confirm.
Submissions == {s \in [Names -> Data] : s["pw2"] = "x" /\ s["confirm"] = ""}

\* ActionWrapper.__init__(callable, *args, **kwargs) over name strings; the
\* fields of both forms constructed, with or without their own error list.
Init ==
    /\ args \in BoundedSeq({NameRef(s) : s \in Names}, MaxArgs)
    /\ kwargs \in KwDicts
    /\ resolved = FALSE
    /\ callable \in Callables
    /\ \E sub \in Submissions : data = [n \in NodeIds |-> sub[AttrName[n]]]
    /\ errs = [s \in NodeIds \cup {0} |-> <<>>]
    /\ hasOwn \in {{}, NodeIds}
    /\ ret = NoRet
    /\ cls = "Node"
    /\ attrName = <<>>
    /\ inst = <<>>
    /\ supplied = <<>>
    /\ requires = <<>>
    /\ ignores = {}
    /\ idParent = <<>>
    /\ created = NodeIds
    /\ createCounter = Cardinality(NodeIds)

Next ==
    \/ \E form \in Forms : resolve_attr_names(form)
    \/ Call
    \/ \E visited \in SUBSET VisitNames : node_visited(visited)

Spec == Init /\ [][Next]_vars

-----------------------------------------------------------------------------
(* The field descriptor: one Node object and its operations (nodes.py).    *)
(* A Python string is the sequence of its characters.                      *)

Classes == {"Node", "ListNode", "LeaderNode"}

\* Names dir(self) lists that start with an underscore.
PrivateAttrs == {"_attr_name", "_create_counter", "_ignores", "_requires"}

NodeClassAttrs ==
    {"add_error", "data", "errors", "get_context", "label", "resolve_data",
     "set_identifiers", "template", "validator"}

\* Public class attributes: BaseNode adds base, css_class and css_style.
PublicClassAttrs(c) ==
    IF c = "ListNode"
    THEN NodeClassAttrs \cup {"base", "css_class", "css_style"}
    ELSE NodeClassAttrs

\* _requires and _ignores as the classes define them.
ClassRequires(c) == IF c = "ListNode" THEN <<"items">> ELSE <<>>
ClassIgnores == {"template", "validator"}

\* The value of a class attribute: data is '', every other one is a token.
ClassValue(k) == IF k = "data" THEN <<>> ELSE <<k>>

Dir(c, d) == PublicClassAttrs(c) \cup PrivateAttrs \cup DOMAIN d

hasattr(c, d, k) == k \in Dir(c, d)

getattr(d, k) == IF k \in DOMAIN d THEN d[k] ELSE ClassValue(k)

StartsWithUnderscore(k) == k \in PrivateAttrs

\* d with key k set to v
SetAttr(d, k, v) == [x \in DOMAIN d \cup {k} |-> IF x = k THEN v ELSE d[x]]

\* d without key k
DelAttr(d, k) == [x \in DOMAIN d \ {k} |-> d[x]]

Upper(ch) == CASE ch = "a" -> "A" [] ch = "b" -> "B" [] OTHER -> ch
Lower(ch) == CASE ch = "A" -> "a" [] ch = "B" -> "b" [] OTHER -> ch

\* str.capitalize(): first character upper case, the rest lower case
capitalize(str) ==
    [i \in 1..Len(str) |-> IF i = 1 THEN Upper(str[i]) ELSE Lower(str[i])]

\* "{}_{}".format(parent_name, self._attr_name)
FormatId(parent, name) == parent \o <<"_">> \o name

NodeRet ==
    [op |-> "init", exc |-> "none", key |-> "", ctx |-> <<>>, g |-> <<>>,
     sub |-> <<>>]

\* Faulty variant: the defaults are assigned without the hasattr tests.
NodeSetIdentifiersOverwrite(c, d, parent, name) ==
    SetAttr(SetAttr(SetAttr(d, "id", FormatId(parent, name)), "name", name),
            "title", capitalize(name))

\* Node.set_identifiers
NodeSetIdentifiers(c, d, parent, name) ==
    LET d1 == IF ~hasattr(c, d, "id")
              THEN SetAttr(d, "id", FormatId(parent, name)) ELSE d
        d2 == IF ~hasattr(c, d1, "name") THEN SetAttr(d1, "name", name) ELSE d1
    IN  IF ~hasattr(c, d2, "title")
        THEN SetAttr(d2, "title", capitalize(name)) ELSE d2

\* LeaderNode.set_identifiers: the base method, then delattr(self, 'title')
LeaderSetIdentifiers(c, d, parent, name) ==
    DelAttr(NodeSetIdentifiers(c, d, parent, name), "title")

set_identifiers(parent) ==
    /\ Len(idParent) < MaxIdentifyCalls
    /\ inst' = IF cls = "LeaderNode"
               THEN LeaderSetIdentifiers(cls, inst, parent, attrName)
               ELSE NodeSetIdentifiers(cls, inst, parent, attrName)
    /\ idParent' = Append(idParent, parent)
    /\ ret' = [NodeRet EXCEPT !.op = "identifiers"]
    /\ UNCHANGED <<cls, attrName, supplied, requires, ignores>>
    /\ UNCHANGED bvars
    /\ UNCHANGED evars

\* Faulty variant: an empty submitted value is treated like a missing key.
ResolveDataFailsOnEmpty(c, d, sub) ==
    \/ ~hasattr(c, d, "name")
    \/ getattr(d, "name") \notin DOMAIN sub
    \/ sub[getattr(d, "name")] = <<>>

\* try: self.data = data[self.name]; except: raise FormDataAccessException
ResolveDataFails(c, d, sub) ==
    \/ ~hasattr(c, d, "name")
    \/ getattr(d, "name") \notin DOMAIN sub

resolve_data(sub) ==
    /\ IF ResolveDataFails(cls, inst, sub)
       THEN /\ ret' = [NodeRet EXCEPT !.op = "data", !.sub = sub,
                                      !.exc = "FormDataAccessException"]
            /\ UNCHANGED inst
       ELSE /\ inst' = SetAttr(inst, "data", sub[getattr(inst, "name")])
            /\ ret' = [NodeRet EXCEPT !.op = "data", !.sub = sub]
    /\ UNCHANGED <<cls, attrName, supplied, requires, ignores, idParent>>
    /\ UNCHANGED bvars
    /\ UNCHANGED evars

\* Faulty variant: the _ignores filter is missing.
ContextKeysUnfiltered(c, d, ign) ==
    {i \in Dir(c, d) : ~StartsWithUnderscore(i)}

\* {i: getattr(self, i) for i in dir(self)
\*     if not i.startswith("_") and i not in self._ignores}
ContextKeys(c, d, ign) ==
    {i \in Dir(c, d) : ~StartsWithUnderscore(i) /\ i \notin ign}

\* for r in self._requires: if r not in d: raise InvalidContextException
MissingRequired(req, keys) == {j \in DOMAIN req : req[j] \notin keys}

FirstMissing(req, keys) ==
    req[CHOOSE j \in MissingRequired(req, keys) :
            \A m \in MissingRequired(req, keys) : j <= m]

\* d['g'] = g_context; return d
ContextResult(c, d, ign, g) ==
    [k \in ContextKeys(c, d, ign) \cup {"g"} |->
        IF k = "g" THEN g ELSE getattr(d, k)]

get_context(g) ==
    /\ IF MissingRequired(requires, ContextKeys(cls, inst, ignores)) # {}
       THEN ret' = [NodeRet EXCEPT
                      !.op = "context", !.g = g,
                      !.exc = "InvalidContextException",
                      !.key = FirstMissing(requires,
                                           ContextKeys(cls, inst, ignores))]
       ELSE ret' = [NodeRet EXCEPT
                      !.op = "context", !.g = g,
                      !.ctx = ContextResult(cls, inst, ignores, g)]
    /\ UNCHANGED nvars
    /\ UNCHANGED bvars
    /\ UNCHANGED evars

\* Values a caller passes
AttrNames == {<<"a", "B">>, <<"b">>}
ParentNames == {<<"f">>, <<"g">>}
Custom == <<"c">>
KwargKeys == {"id", "name", "title", "items", "g"}
GlobalContexts == {<<"G">>, <<"H">>}
SubmittedValues == {<<>>, <<"v">>}
SubmissionKeys == {<<"a", "B">>, Custom}
NodeSubmissions ==
    UNION {[ks -> SubmittedValues] : ks \in SUBSET SubmissionKeys}

\* _requires and _ignores: the class's lists, or lists given to the constructor.
RequiresChoices(c) == {ClassRequires(c), <<"items", "title">>, <<"g">>}
IgnoresChoices == {ClassIgnores, ClassIgnores \cup {"title"}, {"g", "items"}}

\* Node.__init__(**kwargs): self.__dict__.update(kwargs)
NodeInit ==
    /\ cls \in Classes
    /\ attrName \in AttrNames
    /\ \E ks \in SUBSET KwargKeys : inst = [k \in ks |-> Custom]
    /\ supplied = inst
    /\ requires \in RequiresChoices(cls)
    /\ ignores \in IgnoresChoices
    /\ idParent = <<>>
    /\ ret = NodeRet
    /\ args = <<>>
    /\ kwargs = <<>>
    /\ resolved = FALSE
    /\ callable = "Required"
    /\ data = [n \in NodeIds |-> ""]
    /\ errs = [s \in NodeIds \cup {0} |-> <<>>]
    /\ hasOwn = {}
    /\ created = {1}
    /\ createCounter = 1

NodeNext ==
    \/ \E parent \in ParentNames : set_identifiers(parent)
    \/ \E sub \in NodeSubmissions : resolve_data(sub)
    \/ \E g \in GlobalContexts : get_context(g)

SpecNode == NodeInit /\ [][NodeNext]_vars

-----------------------------------------------------------------------------
(* Fields being constructed and receiving errors (nodes.py 52-66) *)

ErrRet == [op |-> "init", node |-> 0, error |-> [message |-> ""]]

ErrorRecords == {MatchingMessage, RequiredMessage}

\* Node.__init__(**kwargs): the new object takes the next creation number;
\* with errors=[] among kwargs its instance dictionary holds its own list.
NodeCreate(ownList) ==
    /\ createCounter < MaxCreated
    /\ LET n == createCounter + 1
       IN  /\ created' = created \cup {n}
           /\ hasOwn' = IF ownList THEN hasOwn \cup {n} ELSE hasOwn
           /\ ret' = [ErrRet EXCEPT !.op = "create", !.node = n]
    /\ createCounter' = createCounter + 1
    /\ UNCHANGED <<args, kwargs, resolved, callable, data, errs>>
    /\ UNCHANGED nvars

\* The records held by all lists together.
TotalErrors(es) ==
    LET RECURSIVE Sum(_)
        Sum(S) == IF S = {} THEN 0
                  ELSE LET x == CHOOSE y \in S : TRUE
                       IN  Len(es[x]) + Sum(S \ {x})
    IN  Sum(DOMAIN es)

\* Node.add_error(error) on a constructed field
AddError(n, error) ==
    /\ n \in created
    /\ TotalErrors(errs) < MaxErrors
    /\ errs' = add_error(errs, n, error)
    /\ ret' = [ErrRet EXCEPT !.op = "add_error", !.node = n, !.error = error]
    /\ UNCHANGED <<args, kwargs, resolved, callable, data, hasOwn>>
    /\ UNCHANGED nvars
    /\ UNCHANGED evars

\* No field constructed yet; Node.errors is the empty class-level list.
ErrInit ==
    /\ created = {}
    /\ createCounter = 0
    /\ hasOwn = {}
    /\ errs = [s \in NodeIds \cup {0} |-> <<>>]
    /\ ret = ErrRet
    /\ args = <<>>
    /\ kwargs = <<>>
    /\ resolved = FALSE
    /\ callable = "Required"
    /\ data = [n \in NodeIds |-> ""]
    /\ cls = "Node"
    /\ attrName = <<>>
    /\ inst = <<>>
    /\ supplied = <<>>
    /\ requires = <<>>
    /\ ignores = {}
    /\ idParent = <<>>

ErrNext ==
    \/ \E ownList \in BOOLEAN : NodeCreate(ownList)
    \/ \E n \in NodeIds, error \in ErrorRecords : AddError(n, error)

SpecErrors == ErrInit /\ [][ErrNext]_vars

-----------------------------------------------------------------------------
(* Claims about the binding *)

AllRefs == Range(args) \cup {kwargs[i].ref : i \in DOMAIN kwargs}

FromRegistry(r) ==
    IsNode(r) /\ \E form \in Forms : r.node \in Range(Registry[form])

\* C1: once a binding is resolved, a further resolve_attr_names call, with
\* whichever registry, returns normally, leaves every positional and keyword
\* reference and the resolved flag as they were, and makes no registry lookup.
C1_ResolveIdempotent ==
    [][(resolved /\ ret'.op = "resolve")
        => /\ args' = args
           /\ kwargs' = kwargs
           /\ resolved'
           /\ ret'.calls = 0
           /\ ret'.exc = "none"]_vars

\* A resolved binding whose references come from form 1 was handed form 2 and
\* returned without a lookup.
C1_Witness ==
    /\ resolved
    /\ ret.op = "resolve" /\ ret.form = 2 /\ ret.calls = 0
    /\ Len(args) > 0 /\ Len(kwargs) > 0
    /\ args[1].node \in Range(Registry[1])

ResolvedHoldsObjects ==
    resolved => \A r \in AllRefs : FromRegistry(r) /\ ~IsName(r)

CalledWithObjects ==
    (ret.op = "call" /\ ret.called)
        => /\ resolved
           /\ ret.pargs = args /\ ret.pkwargs = kwargs
           /\ \A i \in DOMAIN ret.pargs : IsNode(ret.pargs[i])
           /\ \A i \in DOMAIN ret.pkwargs : IsNode(ret.pkwargs[i].ref)

C3_UnresolvedRaises ==
    [][(~resolved /\ ret'.op \in {"call", "visited"})
        => /\ ret'.exc = "ValueError"
           /\ ~ret'.called
           /\ UNCHANGED bvars]_vars

\* A Matching binding with two positional names, invoked before resolution.
C3_Witness ==
    /\ ~resolved
    /\ ret.op = "call" /\ ret.exc = "ValueError"
    /\ callable = "Matching" /\ Len(args) = 2 /\ kwargs = <<>>

Exposed(r) == Range(get_list_names(r.node))

\* C4: on a resolved binding node_visited(visited) is true exactly when every
\* referenced field, positional or keyword, has an exposed name in visited.
C4_ReadyIffEveryFieldSeen ==
    (ret.op = "visited" /\ ret.exc = "none")
        => /\ resolved
           /\ ret.val = (\A r \in AllRefs : Exposed(r) \cap ret.visited # {})

\* Every positional field is visited and a keyword field is not: not ready.
C4_Witness ==
    /\ ret.op = "visited" /\ ret.exc = "none" /\ ~ret.val
    /\ Len(args) > 0 /\ Len(kwargs) > 0
    /\ \A i \in DOMAIN args : Exposed(args[i]) \cap ret.visited # {}

Qualifying(visited) == {q \in visited : \E r \in AllRefs : q \in Exposed(r)}

\* C5 as stated: when a resolved binding is ready for visited, it is not ready
\* for visited without any one of its qualifying names.
C5_AnyRemovalFlips ==
    (ret.op = "visited" /\ ret.exc = "none" /\ ret.val)
        => \A q \in Qualifying(ret.visited) :
               NodeVisitedResult(ret.visited \ {q}) = "waiting"

\* C5 amended: when a resolved binding is ready for visited, it is not ready
\* for visited without a name that is the only visited name of some referenced
\* field.
C5_SoleNameRemovalFlips ==
    (ret.op = "visited" /\ ret.exc = "none" /\ ret.val)
        => \A q \in ret.visited :
               (\E r \in AllRefs : Exposed(r) \cap ret.visited = {q})
                   => NodeVisitedResult(ret.visited \ {q}) = "waiting"

\* Two positional fields, each visited under exactly one name.
C5_Witness ==
    /\ ret.op = "visited" /\ ret.exc = "none" /\ ret.val
    /\ Len(args) = 2 /\ args[1] # args[2]
    /\ \A i \in DOMAIN args : Cardinality(Exposed(args[i]) \cap ret.visited) = 1

Errors1(n) == errs'[ErrorSlot(hasOwn, n)]

\* C9: a call of a resolved Matching binding over two fields appends one
\* record to the error sequence of each of the two fields when their data
\* differ, after the records already there, and changes no error sequence
\* when their data are equal.
C9_MatchingAppendsOneEach ==
    [][(resolved /\ callable = "Matching"
        /\ ret'.op = "call" /\ ret'.exc = "none")
        => LET t1 == BoundArg(callable, args, kwargs, 1).node
               t2 == BoundArg(callable, args, kwargs, 2).node
           IN  IF data[t1] # data[t2]
               THEN /\ Errors1(t1) = Append(Errors(t1), MatchingMessage)
                    /\ Errors1(t2) = Append(Errors(t2), MatchingMessage)
               ELSE errs' = errs]_vars

\* C10: when resolve_attr_names meets a reference whose name the registry
\* does not declare, the registry's lookup error for one of the undeclared
\* references leaves the call, and the binding is not resolved.
C10_LookupErrorSurfaces ==
    [][(~resolved /\ ret'.op = "resolve"
        /\ \E r \in AllRefs : IsName(r) /\ ~Declares(ret'.form, r))
        => /\ ret'.exc = "LookupError"
           /\ ~Declares(ret'.form, ret'.missing)
           /\ ret'.missing \in AllRefs
           /\ ~resolved']_vars

\* Form 1 does not declare confirm.
C10_Witness ==
    /\ ret.op = "resolve" /\ ret.form = 1 /\ ret.exc = "LookupError"
    /\ ret.missing = NameRef("confirm")
    /\ ~resolved

\* C11: a call on a resolved binding raises NotCallableException when the
\* stored arguments do not fit the callable's signature, and otherwise ends
\* exactly as the validator's own body ends: whatever exception the body
\* raises, of whatever type, leaves the call as raised.
C11_ValidatorErrorsPropagate ==
    [][(resolved /\ ret'.op = "call")
        => IF SignatureMismatch(callable, args, kwargs)
           THEN ret'.exc = "NotCallableException"
           ELSE ret'.exc = CallCallable(callable, args, kwargs).exc]_vars

\* The name a reference was constructed with.
OriginalName(r) == IF IsName(r) THEN r.name ELSE AttrName[r.node]

\* C13: a resolve_attr_names call that ends with the lookup error leaves
\* resolved false and every positional and keyword reference as it was, and
\* a call on an unresolved binding succeeds whenever the registry declares
\* every name the binding was constructed with.
C13_FailedResolveLeavesBinding ==
    [][(~resolved /\ ret'.op = "resolve")
        => /\ ret'.exc = "LookupError"
              => /\ args' = args /\ kwargs' = kwargs /\ ~resolved'
                 /\ \A r \in AllRefs : IsName(r)
           /\ (\A r \in AllRefs :
                   OriginalName(r) \in DOMAIN Registry[ret'.form])
              => ret'.exc = "none" /\ resolved']_vars

-----------------------------------------------------------------------------
(* Claims about the field descriptor *)

\* C6 as stated: a mapping returned by get_context holds no key of _ignores
\* and every key of _requires, and the call raises InvalidContextException
\* whenever a required attribute is absent from the field.
C6_ContextKeys ==
    (ret.op = "context")
        => /\ ret.exc = "none"
              => /\ \A k \in ignores : k \notin DOMAIN ret.ctx
                 /\ \A j \in DOMAIN requires : requires[j] \in DOMAIN ret.ctx
           /\ (\E j \in DOMAIN requires : ~hasattr(cls, inst, requires[j]))
              => ret.exc = "InvalidContextException"

\* C6 amended: a mapping returned by get_context holds no key of _ignores
\* other than the reserved key g, which is always present and holds the
\* global context; it holds every key of _requires; and the call raises
\* InvalidContextException whenever a required attribute is absent.
C6_ContextKeysExceptG ==
    (ret.op = "context")
        => /\ ret.exc = "none"
              => /\ \A k \in ignores \ {"g"} : k \notin DOMAIN ret.ctx
                 /\ "g" \in DOMAIN ret.ctx /\ ret.ctx["g"] = ret.g
                 /\ \A j \in DOMAIN requires : requires[j] \in DOMAIN ret.ctx
           /\ (\E j \in DOMAIN requires : ~hasattr(cls, inst, requires[j]))
              => ret.exc = "InvalidContextException"

\* A mapping was returned for a field that has a title, ignores it and
\* requires something.
C6_Witness ==
    /\ ret.op = "context" /\ ret.exc = "none"
    /\ "title" \in ignores /\ "title" \in DOMAIN inst
    /\ requires # <<>>

Identifiers == {"id", "name", "title"}

DefaultIdentifier(k, parent) ==
    CASE k = "id" -> FormatId(parent, attrName)
      [] k = "name" -> attrName
      [] k = "title" -> capitalize(attrName)

\* The value identifier k must have once set_identifiers has run.
ExpectedIdentifier(k) ==
    IF k \in DOMAIN supplied THEN supplied[k]
    ELSE DefaultIdentifier(k, idParent[1])

\* C7 as stated: after set_identifiers was called, once or more and with any
\* parent names, each of id, name and title holds the value supplied to the
\* constructor, or else the default derived from the first call's parent name.
C7_IdentifiersKept ==
    (idParent # <<>>)
        => \A k \in Identifiers :
               k \in DOMAIN inst /\ inst[k] = ExpectedIdentifier(k)

\* C7 amended: the same for id and name on every field and for title on every
\* field but a LeaderNode; a LeaderNode has no title after any call, supplied
\* or not.
C7_IdentifiersKeptButLeaderTitle ==
    (idParent # <<>>)
        => /\ \A k \in {"id", "name"} :
                  k \in DOMAIN inst /\ inst[k] = ExpectedIdentifier(k)
           /\ IF cls = "LeaderNode"
              THEN "title" \notin DOMAIN inst
              ELSE "title" \in DOMAIN inst
                   /\ inst["title"] = ExpectedIdentifier("title")

\* Two calls with different parent names on a field built with an id and
\* without a title.
C7_Witness ==
    /\ Len(idParent) = 2 /\ idParent[1] # idParent[2]
    /\ cls # "LeaderNode"
    /\ "id" \in DOMAIN supplied /\ "title" \notin DOMAIN supplied
    /\ attrName = <<"a", "B">>

\* C8: resolve_data(submission) sets data to submission[name] whenever the
\* field's name is a key of the submission, an empty value included, and
\* otherwise raises FormDataAccessException and leaves the field as it was.
C8_ResolveData ==
    [][(ret'.op = "data")
        => IF hasattr(cls, inst, "name")
              /\ getattr(inst, "name") \in DOMAIN ret'.sub
           THEN /\ ret'.exc = "none"
                /\ inst' = SetAttr(inst, "data",
                                   ret'.sub[getattr(inst, "name")])
           ELSE /\ ret'.exc = "FormDataAccessException"
                /\ inst' = inst]_vars

\* An empty value was submitted for the field and stored.
C8_Witness ==
    /\ ret.op = "data" /\ ret.exc = "none"
    /\ "data" \in DOMAIN inst /\ inst["data"] = <<>>
    /\ ret.sub[inst["name"]] = <<>>

-----------------------------------------------------------------------------
(* Claims about the error sequences *)

\* C12: add_error on a field appends the record to that field's errors and
\* leaves the errors of every other constructed field as they were, and a
\* field constructed later starts without errors and changes no other
\* field's errors.
C12_ErrorsPerField ==
    [][/\ ret'.op = "add_error"
          => /\ Errors1(ret'.node) = Append(Errors(ret'.node), ret'.error)
             /\ \A m \in created \ {ret'.node} : Errors1(m) = Errors(m)
       /\ ret'.op = "create"
          => /\ errs'[ErrorSlot(hasOwn', ret'.node)] = <<>>
             /\ \A m \in created : Errors1(m) = Errors(m)]_vars

====
